---------------------------- MODULE Spec2Model ----------------------------
(***************************************************************************)
(* Model of the cable parser of csvToXML.py (class XMLCablesDocument).     *)
(*                                                                         *)
(* Text is a sequence of one-character strings.  An ElementTree node is a  *)
(* record [tag, attrib, hasText, text, children]; hasText = FALSE is a     *)
(* node whose text is None.                                                *)
(***************************************************************************)
EXTENDS Integers, Sequences, FiniteSets, TLC

(***************************************************************************)
(* Bounds of the model.                                                    *)
(***************************************************************************)
\* largest number of lines of a content blob
MaxLines == 4

\* largest number of rows of a file after its first row
MaxRows == 4

\* largest number of parseCSVFile calls in a run
MaxParses == 2

\* rows after the first row in the files of the writeToFile specification
MaxWriteRows == 2

\* writeToFile calls
MaxWrites == 2

\* notifications in one report of the watchdog
MaxReport == 2

\* reports the monitor loop fetches
MaxBatches == 2

(***************************************************************************)
(* Character classes of Python's re module and of str.strip, over ASCII.   *)
(***************************************************************************)
Digit == {"0", "1", "2", "3", "4", "5", "6", "7", "8", "9"}

Upper ==
  {"A", "B", "C", "D", "E", "F", "G", "H", "I", "J", "K", "L", "M",
   "N", "O", "P", "Q", "R", "S", "T", "U", "V", "W", "X", "Y", "Z"}

Lower ==
  {"a", "b", "c", "d", "e", "f", "g", "h", "i", "j", "k", "l", "m",
   "n", "o", "p", "q", "r", "s", "t", "u", "v", "w", "x", "y", "z"}

\* \w
WordChar == Digit \cup Upper \cup Lower \cup {"_"}

\* \s, and the characters str.strip() removes
SpaceChar == {" ", "\t", "\n", "\r", "\f"}

\* [\r\n]
NewlineChar == {"\r", "\n"}

\* .  (any character but a line feed)
IsDot(c) == c # "\n"

(***************************************************************************)
(* str methods.                                                            *)
(***************************************************************************)
\* s.startswith(p)
StartsWith(s, p) == Len(s) >= Len(p) /\ SubSeq(s, 1, Len(p)) = p

\* s.strip()
Strip(s) ==
  LET between(keep) ==
        IF keep = {} THEN <<>>
        ELSE SubSeq(s, CHOOSE i \in keep : \A j \in keep : i <= j,
                       CHOOSE i \in keep : \A j \in keep : j <= i)
  IN  between({i \in 1..Len(s) : s[i] \notin SpaceChar})

\* s.split(c) for a one-character separator: the pieces between the
\* separators, always at least one piece
SplitOn(s, c) ==
  LET \* position of the k-th of the separators at `at`; 0 before the first
      \* piece and Len(s)+1 after the last
      pos(at, k) == IF k = 0 THEN 0
                    ELSE IF k = Cardinality(at) + 1 THEN Len(s) + 1
                    ELSE CHOOSE p \in at : Cardinality({q \in at : q <= p}) = k
      pieces(at) == [k \in 1..(Cardinality(at) + 1) |->
                       SubSeq(s, pos(at, k - 1) + 1, pos(at, k) - 1)]
  IN  pieces({i \in 1..Len(s) : s[i] = c})

\* s.split('\n')
SplitLines(s) == SplitOn(s, "\n")

\* int(s) for a sequence of decimal digits
RECURSIVE ToInt(_)
ToInt(s) ==
  LET v == [c \in Digit |-> CHOOSE n \in 0..9 :
                 <<"0", "1", "2", "3", "4", "5", "6", "7", "8", "9">>[n + 1] = c]
  IN  IF s = <<>> THEN 0
      ELSE 10 * ToInt(SubSeq(s, 1, Len(s) - 1)) + v[s[Len(s)]]

\* str(n) for a natural number
RECURSIVE Str(_)
Str(n) ==
  LET d == <<"0", "1", "2", "3", "4", "5", "6", "7", "8", "9">>
  IN  IF n < 10 THEN <<d[n + 1]>> ELSE Str(n \div 10) \o <<d[(n % 10) + 1]>>

\* the escape of one character inside repr(s) with the quote q
ReprChar(c, q) ==
  CASE c = "\\" -> <<"\\", "\\">>
    [] c = "\n" -> <<"\\", "n">>
    [] c = "\r" -> <<"\\", "r">>
    [] c = "\t" -> <<"\\", "t">>
    [] c = "\f" -> <<"\\", "x", "0", "c">>
    [] c = q    -> <<"\\", q>>
    [] OTHER    -> <<c>>

RECURSIVE ReprBody(_, _)
ReprBody(s, q) ==
  IF s = <<>> THEN <<>> ELSE ReprChar(Head(s), q) \o ReprBody(Tail(s), q)

\* repr(s): single quotes, unless s holds a single and no double quote
Repr(s) ==
  LET quoted(q) == <<q>> \o ReprBody(s, q) \o <<q>>
  IN  quoted(IF /\ \E i \in 1..Len(s) : s[i] = "'"
                /\ ~\E i \in 1..Len(s) : s[i] = "\""
             THEN "\"" ELSE "'")

(***************************************************************************)
(* ElementTree.                                                            *)
(***************************************************************************)
\* ET.Element(tag, **attrib): no text, no children
Element(tag, attrib) ==
  [tag |-> tag, attrib |-> attrib, hasText |-> FALSE, text |-> <<>>,
   children |-> <<>>]

\* an element after  .text = t
TextElement(tag, t) ==
  [tag |-> tag, attrib |-> <<>>, hasText |-> TRUE, text |-> t,
   children |-> <<>>]

\* ET.SubElement(parent, ...): the parent with the child appended
SubElement(parent, child) ==
  [parent EXCEPT !.children = Append(@, child)]


(***************************************************************************)
(* The line patterns of parseCableMessageText.  re.match anchors the       *)
(* pattern at the start of the line; a result is [hit, group].             *)
(***************************************************************************)
NoMatch == [hit |-> FALSE, group |-> <<>>]

\* the greedy  .+  from position `from`: the last position it takes, or 0
\* when it cannot take one character
DotPlus(s, from) ==
  IF from > Len(s) \/ ~IsDot(s[from]) THEN 0
  ELSE CHOOSE e \in from..Len(s) :
         /\ \A k \in from..e : IsDot(s[k])
         /\ (e = Len(s) \/ ~IsDot(s[e + 1]))

\* the rest of the line after a literal prefix:  prefix(?P<group>.+)
AfterPrefix(s, prefix) ==
  LET upTo(e) == IF StartsWith(s, prefix) /\ e # 0
                 THEN [hit |-> TRUE, group |-> SubSeq(s, Len(prefix) + 1, e)]
                 ELSE NoMatch
  IN  upTo(DotPlus(s, Len(prefix) + 1))

\* "^(?P<eoline>E\.\s?O\. (?:.+))"
MatchEO(s) ==
  LET \* o: the position of the "O"; e: the last position of the .+
      upTo(o, e) == IF /\ StartsWith(s, <<"E", ".">>)
                       /\ Len(s) >= o + 2
                       /\ SubSeq(s, o, o + 2) = <<"O", ".", " ">>
                       /\ e # 0
                    THEN [hit |-> TRUE, group |-> SubSeq(s, 1, e)]
                    ELSE NoMatch
      from(o) == upTo(o, DotPlus(s, o + 3))
  IN  \* the "O" stands after the optional \s when there is one
      from(IF Len(s) >= 3 /\ s[3] \in SpaceChar THEN 4 ELSE 3)

\* "^TAGS: (?P<tagslist>.+)"
MatchTags(s) == AfterPrefix(s, <<"T", "A", "G", "S", ":", " ">>)

\* "^(?:SUBJECT:|SUBJ:) (?P<subject>.+)"
MatchSubject(s) ==
  LET either(long, short) == IF long.hit THEN long ELSE short
  IN  either(AfterPrefix(s, <<"S", "U", "B", "J", "E", "C", "T", ":", " ">>),
             AfterPrefix(s, <<"S", "U", "B", "J", ":", " ">>))

\* "^(?:REF:) (?P<ref>.+)"
MatchRef(s) == AfterPrefix(s, <<"R", "E", "F", ":", " ">>)

\* re.findall("(\w+)(?:,\s|$)", s) from position p on: at each position the
\* greedy \w+ is tried from its longest length down; a match is kept when a
\* comma and a white space, or the end of the string, follows it
RECURSIVE FindAllFrom(_, _)
FindAllFrom(s, p) ==
  IF p > Len(s) THEN <<>>
  ELSE
    LET sep(e) == e + 2 <= Len(s) /\ s[e + 1] = "," /\ s[e + 2] \in SpaceChar
        atEnd(e) == e = Len(s) \/ (e + 1 = Len(s) /\ s[e + 1] = "\n")
        token(e) == <<SubSeq(s, p, e)>> \o
                    FindAllFrom(s, IF sep(e) THEN e + 3 ELSE e + 1)
        longest(ok) == IF ok = {} THEN FindAllFrom(s, p + 1)
                       ELSE token(CHOOSE x \in ok : \A y \in ok : y <= x)
    IN  longest({e \in p..Len(s) :
                   /\ \A k \in p..e : s[k] \in WordChar
                   /\ (sep(e) \/ atEnd(e))})

FindAllTags(s) == FindAllFrom(s, 1)

(***************************************************************************)
(* parseCableMessageText.  A frame holds the locals of one call:           *)
(*   cableLines    the lines of the content                                *)
(*   lineIterator  the index of the line the iterator yields next          *)
(*   foundItem     the flag of the same name                               *)
(*   contentNode   the <content> element built so far                      *)
(*   matched       for each field, the index of the line its loop left at  *)
(*                 by `break` (0: the loop ran off the end)                *)
(*   printed       the warnings printed by the call, in order              *)
(***************************************************************************)
WarnEO      == "WARNING: E.O. line not found within cable content."
WarnTags    == "WARNING: TAGS not found within cable content."
WarnSubject == "WARNING: SUBJECT not found within cable content."

\* m = re.match(<the pattern of the field's loop>, currentLine)
PatternOf(field, line) ==
  CASE field = "eoline"  -> MatchEO(line)
    [] field = "tags"    -> MatchTags(line)
    [] field = "subject" -> MatchSubject(line)
    [] field = "ref"     -> MatchRef(line)

\* the line at which the field's for loop breaks: the first line at or
\* after the iterator's position that matches, or 0
FirstMatch(cableLines, lineIterator, field) ==
  LET first(hits) ==
        IF hits = {} THEN 0 ELSE CHOOSE i \in hits : \A j \in hits : i <= j
  IN  first({i \in lineIterator..Len(cableLines) :
               PatternOf(field, cableLines[i]).hit})

\* IterAfter with the iterator rewound to the first line after a hit
IterAfterRewind(cableLines, i) == IF i # 0 THEN 1 ELSE Len(cableLines) + 1

\* the iterator after a for loop that left at line i (0: exhausted)
IterAfter(cableLines, i) == IF i # 0 THEN i + 1 ELSE Len(cableLines) + 1

\* contentNode = ET.SubElement(cableNode, "content"); cableLines = ...;
\* lineIterator = iter(cableLines)
EnterContent(contentText) ==
  [cableLines   |-> SplitLines(contentText),
   lineIterator |-> 1,
   foundItem    |-> FALSE,
   contentNode  |-> Element("content", <<>>),
   matched      |-> [eoline |-> 0, tags |-> 0, subject |-> 0, ref |-> 0],
   printed      |-> <<>>]

\* AfterLoop with the iterator reset after a hit as well
AfterLoopAlwaysReset(f, warning) ==
  IF ~f.foundItem
  THEN [f EXCEPT !.lineIterator = 1, !.printed = Append(@, warning)]
  ELSE [f EXCEPT !.lineIterator = 1, !.foundItem = FALSE]

\* AfterLoop with the exhausted iterator kept after a miss
AfterLoopNoReset(f, warning) ==
  IF ~f.foundItem
  THEN [f EXCEPT !.printed = Append(@, warning)]
  ELSE [f EXCEPT !.foundItem = FALSE]

\* AfterLoop with the warning left out
AfterLoopSilent(f, warning) ==
  IF ~f.foundItem
  THEN [f EXCEPT !.lineIterator = 1]
  ELSE [f EXCEPT !.foundItem = FALSE]

\* if(not foundItem): reset the iterator and warn; else foundItem = False
AfterLoop(f, warning) ==
  IF ~f.foundItem
  THEN [f EXCEPT !.lineIterator = 1, !.printed = Append(@, warning)]
  ELSE [f EXCEPT !.foundItem = FALSE]

\* the E.O. loop and the if after it
ScanEO(f) ==
  LET leftAt(i) ==
        [f EXCEPT
           !.foundItem = (i # 0),
           !.lineIterator = IterAfter(f.cableLines, i),
           !.matched.eoline = i,
           !.contentNode =
              IF i = 0 THEN @
              ELSE SubElement(@, TextElement("eoline",
                                Strip(MatchEO(f.cableLines[i]).group)))]
  IN  AfterLoop(leftAt(FirstMatch(f.cableLines, f.lineIterator, "eoline")),
                WarnEO)

\* the <tags count=...> element of a TAGS line
TagsElement(tagslist) ==
  LET node(tagsList) ==
        [tag |-> "tags", attrib |-> << <<"count", Str(Len(tagsList))>> >>,
         hasText |-> FALSE, text |-> <<>>,
         children |-> [k \in 1..Len(tagsList) |-> TextElement("tag", tagsList[k])]]
  IN  node(FindAllTags(Strip(tagslist)))

\* the TAGS loop and the if after it
ScanTags(f) ==
  LET leftAt(i) ==
        [f EXCEPT
           !.foundItem = IF i # 0 THEN TRUE ELSE @,
           !.lineIterator = IterAfter(f.cableLines, i),
           !.matched.tags = i,
           !.contentNode =
              IF i = 0 THEN @
              ELSE SubElement(@, TagsElement(MatchTags(f.cableLines[i]).group))]
  IN  AfterLoop(leftAt(FirstMatch(f.cableLines, f.lineIterator, "tags")),
                WarnTags)

\* the SUBJECT loop and the if after it
ScanSubject(f) ==
  LET leftAt(i) ==
        [f EXCEPT
           !.foundItem = IF i # 0 THEN TRUE ELSE @,
           !.lineIterator = IterAfter(f.cableLines, i),
           !.matched.subject = i,
           !.contentNode =
              IF i = 0 THEN @
              ELSE SubElement(@, TextElement("subject",
                                Strip(MatchSubject(f.cableLines[i]).group)))]
  IN  AfterLoop(leftAt(FirstMatch(f.cableLines, f.lineIterator, "subject")),
                WarnSubject)

\* ScanRef with the ref element inserted before the other children
ScanRefFirst(f) ==
  LET leftAt(i) ==
        [f EXCEPT
           !.lineIterator = IterAfter(f.cableLines, i),
           !.matched.ref = i,
           !.contentNode =
              IF i = 0 THEN @
              ELSE [@ EXCEPT !.children =
                      <<TextElement("ref", Strip(MatchRef(f.cableLines[i]).group))>>
                      \o @]]
  IN  leftAt(FirstMatch(f.cableLines, f.lineIterator, "ref"))

\* the REF loop; nothing follows it
ScanRef(f) ==
  LET leftAt(i) ==
        [f EXCEPT
           !.lineIterator = IterAfter(f.cableLines, i),
           !.matched.ref = i,
           !.contentNode =
              IF i = 0 THEN @
              ELSE SubElement(@, TextElement("ref",
                                Strip(MatchRef(f.cableLines[i]).group)))]
  IN  leftAt(FirstMatch(f.cableLines, f.lineIterator, "ref"))

\* FullText without the strip()
FullTextUntrimmed(f, contentText) ==
  [f EXCEPT !.contentNode =
     SubElement(@, TextElement("fullText", Repr(contentText)))]

\* ET.SubElement(contentNode, "fullText").text = repr(contentText.strip())
FullText(f, contentText) ==
  [f EXCEPT !.contentNode =
     SubElement(@, TextElement("fullText", Repr(Strip(contentText))))]

\* the whole call: the frame at return
parseCableMessageText(contentText) ==
  FullText(ScanRef(ScanSubject(ScanTags(ScanEO(EnterContent(contentText))))),
           contentText)


(***************************************************************************)
(* time.strptime(text, "%m/%d/%Y %H:%M").  _strptime matches the regular   *)
(* expression of the format,                                               *)
(*   (?P<m>1[0-2]|0[1-9]|[1-9])/(?P<d>3[0-1]|[1-2]\d|0[1-9]|[1-9]| [1-9])/ *)
(*   (?P<Y>\d\d\d\d)\s+(?P<H>2[0-3]|[0-1]\d|\d):(?P<M>[0-5]\d|\d)          *)
(* raises ValueError when it does not match or does not reach the end of   *)
(* the text, and raises ValueError when the day is not one of the month.   *)
(***************************************************************************)
AllDigits(s) == \A k \in 1..Len(s) : s[k] \in Digit

\* the texts the directive takes whole
IsMonthText(t) ==
  /\ Len(t) \in {1, 2} /\ AllDigits(t)
  /\ IF Len(t) = 2 THEN ToInt(t) \in 1..12 ELSE ToInt(t) \in 1..9

IsDayText(t) ==
  \/ Len(t) \in {1, 2} /\ AllDigits(t) /\ ToInt(t) \in 1..31
  \/ Len(t) = 2 /\ t[1] = " " /\ t[2] \in Digit /\ t[2] # "0"

IsHourText(t) == Len(t) \in {1, 2} /\ AllDigits(t) /\ ToInt(t) \in 0..23

\* the end of (?P<M>[0-5]\d|\d) from position p: two digits when the first
\* is 0 to 5, else one; 0 when no digit is at p
MinuteEnd(s, p) ==
  IF p > Len(s) \/ s[p] \notin Digit THEN 0
  ELSE IF p + 1 <= Len(s) /\ s[p] \in {"0", "1", "2", "3", "4", "5"}
                         /\ s[p + 1] \in Digit
       THEN p + 1 ELSE p

IsLeap(y) == y % 4 = 0 /\ (y % 100 # 0 \/ y % 400 = 0)

DaysInMonth(y, m) ==
  IF m = 2 THEN (IF IsLeap(y) THEN 29 ELSE 28)
  ELSE IF m \in {4, 6, 9, 11} THEN 30 ELSE 31

\* the first position at or after p that holds c, or 0
Find(s, c, p) ==
  LET at == {i \in p..Len(s) : s[i] = c}
  IN  IF at = {} THEN 0 ELSE CHOOSE i \in at : \A j \in at : i <= j

ValueError == [ok |-> FALSE, tm_year |-> 0, tm_mon |-> 0, tm_mday |-> 0,
               tm_hour |-> 0, tm_min |-> 0]

strptime(s) ==
  LET \* s1, s2: the two slashes; h0: the start of the hour, after the
      \* greedy \s+ that follows the year; col: the colon; mEnd: the end of
      \* the minute
      struct(mon, dayN, year, hour, min, matched) ==
        IF /\ matched
           /\ ToInt(year) >= 1
           /\ dayN <= DaysInMonth(ToInt(year), ToInt(mon))
        THEN [ok |-> TRUE, tm_year |-> ToInt(year), tm_mon |-> ToInt(mon),
              tm_mday |-> dayN, tm_hour |-> ToInt(hour), tm_min |-> ToInt(min)]
        ELSE ValueError
      dayOf(day) == IF day[1] = " " THEN ToInt(<<day[2]>>) ELSE ToInt(day)
      groups(s1, s2, h0, col, mEnd) ==
        struct(SubSeq(s, 1, s1 - 1),
               dayOf(SubSeq(s, s1 + 1, s2 - 1)),
               SubSeq(s, s2 + 1, s2 + 4),
               SubSeq(s, h0, col - 1),
               SubSeq(s, col + 1, mEnd),
               /\ s1 # 0 /\ s2 # 0
               /\ IsMonthText(SubSeq(s, 1, s1 - 1))
               /\ IsDayText(SubSeq(s, s1 + 1, s2 - 1))
               /\ Len(s) >= s2 + 4 /\ AllDigits(SubSeq(s, s2 + 1, s2 + 4))
               /\ h0 > s2 + 5 /\ col # 0
               /\ IsHourText(SubSeq(s, h0, col - 1))
               /\ mEnd = Len(s))
      fromColon(s1, s2, h0, col) == groups(s1, s2, h0, col, MinuteEnd(s, col + 1))
      fromHour(s1, s2, h0) == fromColon(s1, s2, h0, Find(s, ":", h0))
      fromYear(s1, s2) ==
        fromHour(s1, s2,
                 s2 + 5 + Cardinality({e \in (s2 + 5)..Len(s) :
                                        \A k \in (s2 + 5)..e : s[k] \in SpaceChar}))
      fromDay(s1) == fromYear(s1, IF s1 = 0 THEN 0 ELSE Find(s, "/", s1 + 1))
  IN  fromDay(Find(s, "/", 1))

(***************************************************************************)
(* The header pattern of parseCSVLine,                                     *)
(*   ^(?P<ref>(?:.+) (?P<month>\D{3}) (?P<year>\d{2})(?: .+)?)             *)
(*   [\r\n]+FM (?P<fromlist>[\w\s]+)                                       *)
(*   [\r\n]+TO (?P<tolist>[\w\s]+?)                                        *)
(*   (?:(?:[\r\n]+INFO) (?P<infolist>[\w\s]+))?$                           *)
(* matched as the backtracking matcher of re does: every repetition is     *)
(* tried from its preferred length (greedy: longest, lazy: shortest) and   *)
(* the first length with which the rest of the pattern matches is kept.    *)
(* Each operator matches the pattern from one of its parts to its end and  *)
(* returns the groups captured from there on.                              *)
(***************************************************************************)
HeaderFail ==
  [hit |-> FALSE, refEnd |-> 0, fromlist |-> <<>>, tolist |-> <<>>,
   hasInfo |-> FALSE, infolist |-> <<>>]

\* the ends of the runs of characters of `class` that start at p
RunEnds(s, p, class) == {e \in p..Len(s) : \A k \in p..e : s[k] \in class}

\* the literal t stands at position p
LiteralAt(s, p, t) == Len(s) >= p + Len(t) - 1 /\ SubSeq(s, p, p + Len(t) - 1) = t

\* $ : the end of the text, or the line feed that ends the text
AtEnd(s, p) == p = Len(s) + 1 \/ (p = Len(s) /\ s[p] = "\n")

\* the alternative a repetition keeps: of the ends after which the rest of
\* the pattern matched, the longest when the repetition is greedy and the
\* shortest when it is lazy; each alternative is [at, m], m being what the
\* rest matched.  at = 0 when no alternative matched
Kept(alternatives, greedy) ==
  LET pick(hits) ==
        IF hits = {} THEN [at |-> 0, m |-> HeaderFail]
        ELSE CHOOSE c \in hits :
               \A d \in hits : IF greedy THEN d.at <= c.at ELSE c.at <= d.at
  IN  pick({c \in alternatives : c.m.hit})

\* (?:(?:[\r\n]+INFO) (?P<infolist>[\w\s]+))?$
HeaderInfo(s, p) ==
  LET \* the greedy infolist that starts after the "INFO " at e + 1; its end
      \* is handed on in refEnd
      list(e) == Kept({[at |-> x, m |-> [HeaderFail EXCEPT !.hit = AtEnd(s, x + 1)]] :
                         x \in RunEnds(s, e + 6, WordChar \cup SpaceChar)}, TRUE)
      group(c) ==
        IF c.at # 0
        THEN [HeaderFail EXCEPT !.hit = TRUE, !.hasInfo = TRUE,
                !.infolist = SubSeq(s, c.at + 6, c.m.refEnd)]
        ELSE IF AtEnd(s, p) THEN [HeaderFail EXCEPT !.hit = TRUE]
        ELSE HeaderFail
      end(c) == [HeaderFail EXCEPT !.hit = (c.at # 0), !.refEnd = c.at]
  IN  group(Kept({[at |-> e,
                   m  |-> IF LiteralAt(s, e + 1, <<"I", "N", "F", "O", " ">>)
                          THEN end(list(e)) ELSE HeaderFail] :
                    e \in RunEnds(s, p, NewlineChar)}, TRUE))

\* (?P<tolist>[\w\s]+?) and what follows it
HeaderToList(s, p) ==
  LET group(c) == IF c.at = 0 THEN HeaderFail
                  ELSE [c.m EXCEPT !.tolist = SubSeq(s, p, c.at)]
  IN  group(Kept({[at |-> e, m |-> HeaderInfo(s, e + 1)] :
                    e \in RunEnds(s, p, WordChar \cup SpaceChar)}, FALSE))

\* [\r\n]+TO  and what follows it
HeaderTo(s, p) ==
  Kept({[at |-> e,
         m  |-> IF LiteralAt(s, e + 1, <<"T", "O", " ">>)
                THEN HeaderToList(s, e + 4) ELSE HeaderFail] :
          e \in RunEnds(s, p, NewlineChar)}, TRUE).m

\* (?P<fromlist>[\w\s]+) and what follows it
HeaderFromList(s, p) ==
  LET group(c) == IF c.at = 0 THEN HeaderFail
                  ELSE [c.m EXCEPT !.fromlist = SubSeq(s, p, c.at)]
  IN  group(Kept({[at |-> e, m |-> HeaderTo(s, e + 1)] :
                    e \in RunEnds(s, p, WordChar \cup SpaceChar)}, TRUE))

\* [\r\n]+FM  and what follows it; the ref group ends before it
HeaderFrom(s, p) ==
  LET group(c) == IF c.at = 0 THEN HeaderFail
                  ELSE [c.m EXCEPT !.refEnd = p - 1]
  IN  group(Kept({[at |-> e,
                   m  |-> IF LiteralAt(s, e + 1, <<"F", "M", " ">>)
                          THEN HeaderFromList(s, e + 4) ELSE HeaderFail] :
                    e \in RunEnds(s, p, NewlineChar)}, TRUE))

\* (?: .+)? and what follows it: the group ends at p - 1 when it is left out,
\* which is tried after every way of taking it
HeaderRefTail(s, p) ==
  Kept({[at |-> e, m |-> HeaderFrom(s, e + 1)] :
          e \in {p - 1} \cup
                (IF p <= Len(s) /\ s[p] = " "
                 THEN {e \in (p + 1)..Len(s) : \A k \in (p + 1)..e : IsDot(s[k])}
                 ELSE {})}, TRUE).m

\* " (?P<month>\D{3}) (?P<year>\d{2})" at position p
DateAt(s, p) ==
  /\ Len(s) >= p + 6
  /\ s[p] = " "
  /\ \A k \in (p + 1)..(p + 3) : s[k] \notin Digit
  /\ s[p + 4] = " "
  /\ s[p + 5] \in Digit /\ s[p + 6] \in Digit

\* the whole pattern: [hit, ref, month, year, fromlist, tolist, hasInfo,
\* infolist]
MatchHeader(s) ==
  LET groups(a, m) ==
        IF a = 0
        THEN [hit |-> FALSE, ref |-> <<>>, month |-> <<>>, year |-> <<>>,
              fromlist |-> <<>>, tolist |-> <<>>, hasInfo |-> FALSE,
              infolist |-> <<>>]
        ELSE [hit |-> TRUE, ref |-> SubSeq(s, 1, m.refEnd),
              month |-> SubSeq(s, a + 2, a + 4), year |-> SubSeq(s, a + 6, a + 7),
              fromlist |-> m.fromlist, tolist |-> m.tolist,
              hasInfo |-> m.hasInfo, infolist |-> m.infolist]
      of(c) == groups(c.at, c.m)
  IN  \* the greedy (?:.+) of the ref group ends at a
      of(Kept({[at |-> a, m |-> HeaderRefTail(s, a + 8)] :
                 a \in {a \in 1..Len(s) :
                          (\A k \in 1..a : IsDot(s[k])) /\ DateAt(s, a + 1)}},
              TRUE))

(***************************************************************************)
(* ET.tostring(root, method="xml"): the serialisation as the sequence of   *)
(* the pieces written, tag and attribute names as whole strings and text   *)
(* one character (or one character reference) a piece.                     *)
(***************************************************************************)
\* _escape_cdata
RECURSIVE EscapeCData(_)
EscapeCData(t) ==
  IF t = <<>> THEN <<>>
  ELSE (CASE t[1] = "&" -> <<"&amp;">>
          [] t[1] = "<" -> <<"&lt;">>
          [] t[1] = ">" -> <<"&gt;">>
          [] OTHER      -> <<t[1]>>) \o EscapeCData(Tail(t))

\* _escape_attrib
RECURSIVE EscapeAttrib(_)
EscapeAttrib(t) ==
  IF t = <<>> THEN <<>>
  ELSE (CASE t[1] = "&"  -> <<"&amp;">>
          [] t[1] = "<"  -> <<"&lt;">>
          [] t[1] = ">"  -> <<"&gt;">>
          [] t[1] = "\"" -> <<"&quot;">>
          [] t[1] = "\n" -> <<"&#10;">>
          [] OTHER       -> <<t[1]>>) \o EscapeAttrib(Tail(t))

RECURSIVE SerializeAttribs(_)
SerializeAttribs(a) ==
  IF a = <<>> THEN <<>>
  ELSE <<" ", a[1][1], "=\"">> \o EscapeAttrib(a[1][2]) \o <<"\"">>
       \o SerializeAttribs(Tail(a))

\* _serialize_xml: an element without text and children is written <tag />
RECURSIVE Serialize(_)
SerializeAll(nodes) ==
  LET RECURSIVE go(_)
      go(k) == IF k > Len(nodes) THEN <<>> ELSE Serialize(nodes[k]) \o go(k + 1)
  IN  go(1)

Serialize(e) ==
  <<"<", e.tag>> \o SerializeAttribs(e.attrib) \o
  (IF (e.hasText /\ e.text # <<>>) \/ e.children # <<>>
   THEN <<">">> \o EscapeCData(e.text) \o SerializeAll(e.children)
        \o <<"</", e.tag, ">">>
   ELSE <<" />">>)

tostring(root) == Serialize(root)

(***************************************************************************)
(* minidom.parseString(xmlString).toprettyxml() of writeToFile.  xmlString *)
(* is always the serialisation of self.root (parseCSVLine ends with it),   *)
(* so the parsed document is the tree of self.root as an XML parser reads  *)
(* it back: it refuses the characters XML does not allow and turns every   *)
(* line end of character data into a line feed.  The output is again a     *)
(* sequence of pieces.                                                     *)
(***************************************************************************)
\* the text has only characters XML allows (of the characters of the
\* model, the form feed is the one it does not)
XmlChars(t) == \A k \in 1..Len(t) : t[k] # "\f"

\* the parser accepts the serialisation of the node
RECURSIVE WellFormed(_)
WellFormed(e) ==
  /\ XmlChars(e.text)
  /\ \A k \in 1..Len(e.attrib) : XmlChars(e.attrib[k][2])
  /\ \A k \in 1..Len(e.children) : WellFormed(e.children[k])

\* "\r\n" and "\r" become "\n"
RECURSIVE NormaliseLineEnds(_)
NormaliseLineEnds(t) ==
  IF t = <<>> THEN <<>>
  ELSE IF t[1] = "\r"
       THEN <<"\n">> \o NormaliseLineEnds(IF Len(t) >= 2 /\ t[2] = "\n"
                                          THEN SubSeq(t, 3, Len(t)) ELSE Tail(t))
       ELSE <<t[1]>> \o NormaliseLineEnds(Tail(t))

\* the document the parser builds from the serialisation of the node
RECURSIVE parseString(_)
parseString(e) ==
  [e EXCEPT !.text = NormaliseLineEnds(e.text),
            !.children = [k \in 1..Len(e.children) |-> parseString(e.children[k])]]

\* _write_data of minidom
RECURSIVE WriteData(_)
WriteData(t) ==
  IF t = <<>> THEN <<>>
  ELSE (CASE t[1] = "&"  -> <<"&amp;">>
          [] t[1] = "<"  -> <<"&lt;">>
          [] t[1] = "\"" -> <<"&quot;">>
          [] t[1] = ">"  -> <<"&gt;">>
          [] OTHER       -> <<t[1]>>) \o WriteData(Tail(t))

RECURSIVE WriteAttributes(_)
WriteAttributes(a) ==
  IF a = <<>> THEN <<>>
  ELSE <<" ", a[1][1], "=\"">> \o WriteData(a[1][2]) \o <<"\"">>
       \o WriteAttributes(Tail(a))

\* Element.writexml(writer, indent, "\t", "\n"): an element whose only
\* child is its text is written on one line, an element with child
\* elements has each on a line of its own, one tab deeper
RECURSIVE writexml(_, _)
WriteAll(nodes, indent) ==
  LET RECURSIVE go(_)
      go(k) == IF k > Len(nodes) THEN <<>>
               ELSE writexml(nodes[k], indent) \o go(k + 1)
  IN  go(1)

writexml(e, indent) ==
  indent \o <<"<", e.tag>> \o WriteAttributes(e.attrib) \o
  (IF e.children # <<>>
   THEN <<">", "\n">> \o WriteAll(e.children, indent \o <<"\t">>)
        \o indent \o <<"</", e.tag, ">", "\n">>
   ELSE IF e.hasText /\ e.text # <<>>
   THEN <<">">> \o WriteData(e.text) \o <<"</", e.tag, ">", "\n">>
   ELSE <<"/>", "\n">>)

\* Document.toprettyxml()
toprettyxml(doc) == <<"<?xml version=\"1.0\" ?>", "\n">> \o writexml(doc, <<>>)

(***************************************************************************)
(* parseCSVLine.                                                           *)
(***************************************************************************)
WarnTime   == "WARNING: Time/Date field provided in invalid format."
WarnHeader == "WARNING: Header provided in invalid format."

\* append the elements of a sequence to the children of a node
Extend(parent, nodes) == [parent EXCEPT !.children = @ \o nodes]

\* DateTimeElements with the year element created before strptime is called
DateTimeElementsPartial(text) ==
  LET nodes(cableDateTime) ==
        IF cableDateTime.ok
        THEN <<TextElement("year",   Str(cableDateTime.tm_year)),
               TextElement("month",  Str(cableDateTime.tm_mon)),
               TextElement("day",    Str(cableDateTime.tm_mday)),
               TextElement("hour",   Str(cableDateTime.tm_hour)),
               TextElement("minute", Str(cableDateTime.tm_min))>>
        ELSE <<Element("year", <<>>)>>
  IN  nodes(strptime(text))

\* the five date and time children, none after a ValueError
DateTimeElements(text) ==
  LET nodes(cableDateTime) ==
        IF cableDateTime.ok
        THEN <<TextElement("year",   Str(cableDateTime.tm_year)),
               TextElement("month",  Str(cableDateTime.tm_mon)),
               TextElement("day",    Str(cableDateTime.tm_mday)),
               TextElement("hour",   Str(cableDateTime.tm_hour)),
               TextElement("minute", Str(cableDateTime.tm_min))>>
        ELSE <<>>
  IN  nodes(strptime(text))

\* SourcesElement without the test for the empty field: "".split("|") is [""]
SourcesElementSplitEmpty(text) ==
  LET node(sourcesText, sourcesCount) ==
        [tag |-> "sources", attrib |-> << <<"count", Str(sourcesCount)>> >>,
         hasText |-> FALSE, text |-> <<>>,
         children |-> [k \in 1..sourcesCount |-> TextElement("source", sourcesText[k])]]
      counted(sourcesText) == node(sourcesText, Len(sourcesText))
  IN  counted(SplitOn(text, "|"))

\* the <sources count=...> element
SourcesElement(text) ==
  LET node(sourcesText, sourcesCount) ==
        [tag |-> "sources", attrib |-> << <<"count", Str(sourcesCount)>> >>,
         hasText |-> FALSE, text |-> <<>>,
         children |-> [k \in 1..sourcesCount |-> TextElement("source", sourcesText[k])]]
      counted(sourcesText) == node(sourcesText, Len(sourcesText))
  IN  counted(IF text = <<>> THEN <<>> ELSE SplitOn(text, "|"))

\* InstitutionList with the institutions appended last line first
InstitutionListReversed(tag, present, group) ==
  LET node(lines) ==
        [tag |-> tag, attrib |-> << <<"count", Str(Len(lines))>> >>,
         hasText |-> FALSE, text |-> <<>>,
         children |-> [k \in 1..Len(lines) |->
                         TextElement("institution", Strip(lines[Len(lines) + 1 - k]))]]
  IN  node(IF present THEN SplitLines(Strip(group)) ELSE <<>>)

\* a <from>, <to> or <info> element: count 0 when the group did not take
\* part in the match, else one institution per line of the stripped group
InstitutionList(tag, present, group) ==
  LET node(lines) ==
        [tag |-> tag, attrib |-> << <<"count", Str(Len(lines))>> >>,
         hasText |-> FALSE, text |-> <<>>,
         children |-> [k \in 1..Len(lines) |-> TextElement("institution", Strip(lines[k]))]]
  IN  node(IF present THEN SplitLines(Strip(group)) ELSE <<>>)

\* header = ET.SubElement(thisCable, "header") and the children it gets
\* when the pattern matches
HeaderElement(text) ==
  LET node(m) ==
        IF m.hit
        THEN Extend(Element("header", <<>>),
               <<TextElement("ref", Strip(m.ref)),
                 TextElement("month", m.month),
                 TextElement("year", m.year),
                 InstitutionList("from", TRUE, m.fromlist),
                 InstitutionList("to", TRUE, m.tolist),
                 InstitutionList("info", m.hasInfo, m.infolist)>>)
        ELSE Element("header", <<>>)
  IN  node(MatchHeader(text))

\* the <cable> element of a record of eight fields
CableElement(csvLine) ==
  Extend([tag |-> "cable", attrib |-> << <<"idInSource", csvLine[1]>> >>,
          hasText |-> FALSE, text |-> <<>>, children |-> <<>>],
         DateTimeElements(csvLine[2])
         \o <<TextElement("reference", csvLine[3]),
              TextElement("origin", csvLine[4]),
              TextElement("classification", csvLine[5]),
              SourcesElement(csvLine[6]),
              HeaderElement(csvLine[7]),
              parseCableMessageText(csvLine[8]).contentNode>>)

\* the lines the call prints, in order
LinePrinted(csvLine) ==
  (IF strptime(csvLine[2]).ok THEN <<>> ELSE <<WarnTime>>)
  \o (IF MatchHeader(csvLine[7]).hit THEN <<>> ELSE <<WarnHeader>>)
  \o parseCableMessageText(csvLine[8]).printed

\* parseCSVLine that leaves out the cable of a record it warns about
parseCSVLineDropsWarned(self, csvLine) ==
  LET kept    == LinePrinted(csvLine) = <<>>
      newRoot == IF kept THEN SubElement(self.root, CableElement(csvLine))
                 ELSE self.root
  IN  [root |-> newRoot, hasXmlString |-> TRUE, xmlString |-> tostring(newRoot),
       printed |-> LinePrinted(csvLine)]

\* parseCSVLine with the cable inserted before the cables of the root
parseCSVLinePrepends(self, csvLine) ==
  LET newRoot == [self.root EXCEPT !.children = <<CableElement(csvLine)>> \o @]
  IN  [root |-> newRoot, hasXmlString |-> TRUE, xmlString |-> tostring(newRoot),
       printed |-> LinePrinted(csvLine)]

\* the object after parseCSVLine(csvLine), and the lines printed
parseCSVLine(self, csvLine) ==
  LET newRoot == SubElement(self.root, CableElement(csvLine))
  IN  [root |-> newRoot, hasXmlString |-> TRUE, xmlString |-> tostring(newRoot),
       printed |-> LinePrinted(csvLine)]

(***************************************************************************)
(* Inputs: content lines.  Each is a line a cable body can hold; the pool  *)
(* has two lines for every pattern, lines that nearly match, a line whose  *)
(* TAGS list has no token and lines whose captured text is blank.          *)
(***************************************************************************)
\* 'E.O. 1'
LineEO == <<"E", ".", "O", ".", " ", "1">>

\* 'E. O. 2 '
LineEOSpaced == <<"E", ".", " ", "O", ".", " ", "2", " ">>

\* 'TAGS: a, b'
LineTags == <<"T", "A", "G", "S", ":", " ", "a", ",", " ", "b">>

\* 'TAGS: --'
LineTagsNoToken == <<"T", "A", "G", "S", ":", " ", "-", "-">>

\* 'SUBJECT: Hello'
LineSubject == <<"S", "U", "B", "J", "E", "C", "T", ":", " ", "H", "e", "l", "l", "o">>

\* 'SUBJ:  '
LineSubjBlank == <<"S", "U", "B", "J", ":", " ", " ">>

\* 'REF: "x"'
LineRef == <<"R", "E", "F", ":", " ", "\"", "x", "\"">>

\* 'REF: \t'
LineRefBlank == <<"R", "E", "F", ":", " ", "\t">>

\* ''
LineEmpty == <<>>

\* "E.O.3'\\"
LineJunk == <<"E", ".", "O", ".", "3", "'", "\\">>

LinePool ==
  {LineEO,
   LineEOSpaced,
   LineTags,
   LineTagsNoToken,
   LineSubject,
   LineSubjBlank,
   LineRef,
   LineRefBlank,
   LineEmpty,
   LineJunk}

\* "\n".join(ls)
RECURSIVE JoinLines(_)
JoinLines(ls) ==
  IF Len(ls) = 1 THEN ls[1] ELSE ls[1] \o <<"\n">> \o JoinLines(Tail(ls))

\* the content blobs of one to MaxLines pool lines
ContentPool ==
  {JoinLines(ls) : ls \in UNION {[1..n -> LinePool] : n \in 1..MaxLines}}

(***************************************************************************)
(* Inputs: the fields of records, records and files.                       *)
(***************************************************************************)
\* '12/28/1966 18:48'
TimeValid == <<"1", "2", "/", "2", "8", "/", "1", "9", "6", "6", " ", "1", "8", ":", "4", "8">>

\* '1/2/1966 3:04'
TimeShort == <<"1", "/", "2", "/", "1", "9", "6", "6", " ", "3", ":", "0", "4">>

\* 'not-a-date'
TimeNotADate == <<"n", "o", "t", "-", "a", "-", "d", "a", "t", "e">>

\* '02/30/1966 10:00'
TimeBadDay == <<"0", "2", "/", "3", "0", "/", "1", "9", "6", "6", " ", "1", "0", ":", "0", "0">>

\* ''
SourcesNone == <<>>

\* 'A|B|C'
SourcesThree == <<"A", "|", "B", "|", "C">>

\* '66S1'
SourcesOne == <<"6", "6", "S", "1">>

\* 'R 1Z AUG 72\nFM A\nTO B\nINFO C'
HeaderFull == <<"R", " ", "1", "Z", " ", "A", "U", "G", " ", "7", "2", "\n", "F", "M", " ", "A", "\n", "T", "O", " ", "B", "\n", "I", "N", "F", "O", " ", "C">>

\* 'R 1Z AUG 72 X1\nFM A\nB C\nTO D'
HeaderNoInfo == <<"R", " ", "1", "Z", " ", "A", "U", "G", " ", "7", "2", " ", "X", "1", "\n", "F", "M", " ", "A", "\n", "B", " ", "C", "\n", "T", "O", " ", "D">>

\* 'R 1Z AUG 72\r\nFM A\r\nTO B\r\nINFO C\r\n D\r\n'
HeaderCRLF == <<"R", " ", "1", "Z", " ", "A", "U", "G", " ", "7", "2", "\r", "\n", "F", "M", " ", "A", "\r", "\n", "T", "O", " ", "B", "\r", "\n", "I", "N", "F", "O", " ", "C", "\r", "\n", " ", "D", "\r", "\n">>

\* 'R 1Z AUG 72\nFM A\nINFO C'
HeaderNoTo == <<"R", " ", "1", "Z", " ", "A", "U", "G", " ", "7", "2", "\n", "F", "M", " ", "A", "\n", "I", "N", "F", "O", " ", "C">>

\* ''
HeaderEmpty == <<>>

TimePool == {TimeValid, TimeShort, TimeNotADate, TimeBadDay}

SourcesPool == {SourcesNone, SourcesThree, SourcesOne}

HeaderPool == {HeaderFull, HeaderNoInfo, HeaderCRLF, HeaderNoTo, HeaderEmpty}

\* a body with the four fields in order, one with none, the body of the
\* reset law, a body whose TAGS line has no token
ContentAll == JoinLines(<<LineEO, LineTags, LineSubject, LineRef>>)

RecordContentPool ==
  {ContentAll, LineEmpty, JoinLines(<<LineSubject, LineTags>>), LineTagsNoToken}

\* "7", "66BA1", "Emb", "U"
IdText == <<"7">>

ReferenceText == <<"6", "6", "B", "A", "1">>

OriginText == <<"E", "m", "b">>

ClassificationText == <<"U">>

\* the records of eight fields given to parseCSVLine directly
RecordPool ==
  {<<IdText, t, ReferenceText, OriginText, ClassificationText, src, h, c>> :
     t \in TimePool, src \in SourcesPool, h \in HeaderPool,
     c \in RecordContentPool}

\* rows of a file: a record that raises no warning, one that raises the
\* timestamp, the header and three content warnings, a row of seven fields
\* and a row of nine
RowGood ==
  <<IdText, TimeValid, ReferenceText, OriginText, ClassificationText,
    SourcesThree, HeaderFull, ContentAll>>

RowWarn ==
  <<<<"8">>, TimeNotADate, <<"r">>, <<"o">>, <<"c">>, SourcesNone,
    HeaderNoTo, LineEmpty>>

RowSeven == SubSeq(RowGood, 1, 7)

RowNine == RowGood \o << <<"x">> >>

RowPool == {RowGood, RowWarn, RowSeven, RowNine}

\* first rows: the eight column names, and a row of three fields
FirstRowNames ==
  << <<"i">>, <<"d">>, <<"r">>, <<"o">>, <<"c">>, <<"s">>, <<"h">>, <<"t">> >>

FirstRowShort == << <<"i">>, <<"d">>, <<"r">> >>

FirstRowPool == {FirstRowNames, FirstRowShort}

\* the files: the empty file, and a first row followed by up to MaxRows rows
FilePool ==
  {<<>>} \cup
  {<<h>> \o rows : h \in FirstRowPool,
                   rows \in UNION {[1..n -> RowPool] : n \in 0..MaxRows}}

(***************************************************************************)
(* State.                                                                  *)
(***************************************************************************)
VARIABLES
  contentText,   \* argument of the running parseCableMessageText call
  stage,         \* the statement of parseCableMessageText that runs next
  frame,         \* the locals of the running parseCableMessageText call
  root,          \* self.root
  hasXmlString,  \* the object has the attribute xmlString
  xmlString,     \* self.xmlString
  stdout,        \* the lines printed so far
  csvLine,       \* argument of the latest parseCSVLine call
  csvfile,       \* the rows of the file at filePath
  csvreader,     \* the number of rows the reader has returned
  pc,            \* "new": constructed, "rows": in the loop of parseCSVFile,
                 \* "call": at a direct parseCSVLine call, "returned":
                 \* after the call, "raised": after a call that raised
  calls,         \* the number of calls made so far
  result,        \* what the latest parseCSVFile call returned
  before,        \* the number of cables and of printed lines at the latest
                 \* parseCSVFile call
  xmlFile,       \* the file at xmlFilePath: [exists, content]
  writes,        \* the number of writeToFile calls made so far
  folder,        \* the files of folderToWatch, by name
  successFolder, \* the files of the success folder, by name
  failureFolder, \* the files of the failure folder, by name
  log,           \* the messages given to writeToLog, in order
  watchdogReport,   \* the report the for loop of monitorLoop runs over
  reportIndex,      \* the place in the report of the notification handled next
  processedFiles,   \* the set of the same name
  attempted,     \* the file names processFile was called with for the
                 \* report at hand, in order
  batches,       \* the number of reports fetched so far
  mpc            \* "off": monitorLoop not called, "wait": at
                 \* getFolderWriteActions, "report": in the for loop

vars ==
  <<contentText, stage, frame, root, hasXmlString, xmlString, stdout,
    csvLine, csvfile, csvreader, pc, calls, result, before, xmlFile, writes,
    folder, successFolder, failureFolder, log, watchdogReport, reportIndex,
    processedFiles, attempted, batches, mpc>>

extractorVars == <<contentText, stage, frame>>

objectVars == <<root, hasXmlString, xmlString>>

fileVars == <<csvfile, csvreader, pc, result, before>>

outputVars == <<xmlFile, writes>>

monitorVars ==
  <<folder, successFolder, failureFolder, log, watchdogReport, reportIndex,
    processedFiles, attempted, batches, mpc>>

ErrEmpty     == "ERROR: File is empty."
ErrMalformed ==
  "ERROR: Line of CSV file does not contain 8 values in the appropriate format. Skipping remaining lines."

\* XMLCablesDocument(): the object after __init__
InitObject ==
  /\ root = Element("root", <<>>)
  /\ hasXmlString = FALSE
  /\ xmlString = <<>>

\* no parseCableMessageText call is being stepped
NoExtractor ==
  /\ contentText = <<>>
  /\ stage = "return"
  /\ frame = EnterContent(<<>>)

\* no file is being read
NoFile ==
  /\ csvfile = <<>>
  /\ csvreader = 0
  /\ pc = "new"
  /\ result = "None"
  /\ before = [cables |-> 0, printed |-> 0]

\* a name without a file, in a folder or at xmlFilePath
NoSuchFile == [exists |-> FALSE, locked |-> FALSE, rows |-> <<>>]

\* no writeToFile call was made and nothing is at xmlFilePath
NoOutput ==
  /\ xmlFile = [exists |-> FALSE, content |-> <<>>]
  /\ writes = 0

\* the names of the files of the watched folder
NameA   == <<"a", ".", "c", "s", "v">>

NameB   == <<"b", ".", "c", "s", "v">>

NameTxt == <<"c", ".", "t", "x", "t">>

FileNames == {NameA, NameB, NameTxt}

\* no monitor runs
NoMonitor ==
  /\ folder = [n \in FileNames |-> NoSuchFile]
  /\ successFolder = [n \in FileNames |-> NoSuchFile]
  /\ failureFolder = [n \in FileNames |-> NoSuchFile]
  /\ log = <<>>
  /\ watchdogReport = <<>>
  /\ reportIndex = 1
  /\ processedFiles = {}
  /\ attempted = <<>>
  /\ batches = 0
  /\ mpc = "off"

(***************************************************************************)
(* One call of parseCableMessageText, a loop at a time.                    *)
(***************************************************************************)
InitContent ==
  /\ contentText \in ContentPool
  /\ stage = "eoline"
  /\ frame = EnterContent(contentText)
  /\ InitObject
  /\ NoFile
  /\ stdout = <<>>
  /\ csvLine = <<>>
  /\ calls = 0
  /\ NoOutput
  /\ NoMonitor

StepEO ==
  /\ stage = "eoline"
  /\ frame' = ScanEO(frame)
  /\ stage' = "tags"
  /\ UNCHANGED <<contentText, objectVars, fileVars, stdout, csvLine, calls>>
  /\ UNCHANGED <<outputVars, monitorVars>>

StepTags ==
  /\ stage = "tags"
  /\ frame' = ScanTags(frame)
  /\ stage' = "subject"
  /\ UNCHANGED <<contentText, objectVars, fileVars, stdout, csvLine, calls>>
  /\ UNCHANGED <<outputVars, monitorVars>>

StepSubject ==
  /\ stage = "subject"
  /\ frame' = ScanSubject(frame)
  /\ stage' = "ref"
  /\ UNCHANGED <<contentText, objectVars, fileVars, stdout, csvLine, calls>>
  /\ UNCHANGED <<outputVars, monitorVars>>

StepRef ==
  /\ stage = "ref"
  /\ frame' = ScanRef(frame)
  /\ stage' = "fullText"
  /\ UNCHANGED <<contentText, objectVars, fileVars, stdout, csvLine, calls>>
  /\ UNCHANGED <<outputVars, monitorVars>>

StepFullText ==
  /\ stage = "fullText"
  /\ frame' = FullText(frame, contentText)
  /\ stage' = "return"
  /\ UNCHANGED <<contentText, objectVars, fileVars, stdout, csvLine, calls>>
  /\ UNCHANGED <<outputVars, monitorVars>>

NextContent == StepEO \/ StepTags \/ StepSubject \/ StepRef \/ StepFullText

SpecContent == InitContent /\ [][NextContent]_vars

(***************************************************************************)
(* One call of parseCSVLine on a record of eight fields, on a new object.   *)
(***************************************************************************)
\* the effect of self.parseCSVLine(line) on the object and the console
DoParseCSVLine(line) ==
  LET after == parseCSVLine([root |-> root], line)
  IN  /\ root' = after.root
      /\ hasXmlString' = after.hasXmlString
      /\ xmlString' = after.xmlString
      /\ stdout' = stdout \o after.printed
      /\ csvLine' = line

InitLine ==
  /\ InitObject
  /\ NoExtractor
  /\ csvfile = <<>>
  /\ csvreader = 0
  /\ pc = "call"
  /\ result = "None"
  /\ before = [cables |-> 0, printed |-> 0]
  /\ stdout = <<>>
  /\ csvLine \in RecordPool
  /\ calls = 0
  /\ NoOutput
  /\ NoMonitor

CallParseCSVLine ==
  /\ pc = "call"
  /\ DoParseCSVLine(csvLine)
  /\ pc' = "returned"
  /\ UNCHANGED <<extractorVars, csvfile, csvreader, result, before, calls>>
  /\ UNCHANGED <<outputVars, monitorVars>>

NextLine == CallParseCSVLine

SpecLine == InitLine /\ [][NextLine]_vars

(***************************************************************************)
(* parseCSVFile on the file at filePath, a row at a time, on a new object  *)
(* or on the object of an earlier call.                                    *)
(***************************************************************************)
Init ==
  /\ InitObject
  /\ NoExtractor
  /\ csvfile \in FilePool
  /\ csvreader = 0
  /\ pc = "new"
  /\ result = "None"
  /\ before = [cables |-> 0, printed |-> 0]
  /\ stdout = <<>>
  /\ csvLine = <<>>
  /\ calls = 0
  /\ NoOutput
  /\ NoMonitor

\* the call on an empty file: next(csvreader) raises StopIteration
ParseEmptyFile ==
  /\ pc \in {"new", "returned", "raised"}
  /\ calls < MaxParses
  /\ csvfile = <<>>
  /\ calls' = calls + 1
  /\ before' = [cables |-> Len(root.children), printed |-> Len(stdout)]
  /\ stdout' = Append(stdout, ErrEmpty)
  /\ result' = "False"
  /\ pc' = "returned"
  /\ csvreader' = 0
  /\ UNCHANGED <<extractorVars, objectVars, csvLine, csvfile>>
  /\ UNCHANGED <<outputVars, monitorVars>>

\* ParseFirstRow without the next(csvreader): the loop starts at the first row
ParseFirstRowChecked ==
  /\ pc \in {"new", "returned", "raised"}
  /\ calls < MaxParses
  /\ csvfile # <<>>
  /\ calls' = calls + 1
  /\ before' = [cables |-> Len(root.children), printed |-> Len(stdout)]
  /\ csvreader' = 0
  /\ pc' = "rows"
  /\ UNCHANGED <<extractorVars, objectVars, stdout, csvLine, csvfile, result>>
  /\ UNCHANGED <<outputVars, monitorVars>>

\* the call on a file with rows, up to the loop: next(csvreader) takes the
\* first row
ParseFirstRow ==
  /\ pc \in {"new", "returned", "raised"}
  /\ calls < MaxParses
  /\ csvfile # <<>>
  /\ calls' = calls + 1
  /\ before' = [cables |-> Len(root.children), printed |-> Len(stdout)]
  /\ csvreader' = 1
  /\ pc' = "rows"
  /\ UNCHANGED <<extractorVars, objectVars, stdout, csvLine, csvfile, result>>
  /\ UNCHANGED <<outputVars, monitorVars>>

\* HaltOnMalformed with `continue` in the place of `return`
SkipMalformed ==
  /\ pc = "rows"
  /\ csvreader < Len(csvfile)
  /\ Len(csvfile[csvreader + 1]) # 8
  /\ csvreader' = csvreader + 1
  /\ stdout' = Append(stdout, ErrMalformed)
  /\ UNCHANGED <<extractorVars, objectVars, csvLine, csvfile, calls, before,
                 pc, result>>
  /\ UNCHANGED <<outputVars, monitorVars>>

\* a loop pass on a row that does not have eight values: print and return
HaltOnMalformed ==
  /\ pc = "rows"
  /\ csvreader < Len(csvfile)
  /\ Len(csvfile[csvreader + 1]) # 8
  /\ csvreader' = csvreader + 1
  /\ stdout' = Append(stdout, ErrMalformed)
  /\ result' = "None"
  /\ pc' = "returned"
  /\ UNCHANGED <<extractorVars, objectVars, csvLine, csvfile, calls, before>>
  /\ UNCHANGED <<outputVars, monitorVars>>

\* a loop pass on a row of eight values
ParseRecord ==
  /\ pc = "rows"
  /\ csvreader < Len(csvfile)
  /\ Len(csvfile[csvreader + 1]) = 8
  /\ csvreader' = csvreader + 1
  /\ DoParseCSVLine(csvfile[csvreader + 1])
  /\ UNCHANGED <<extractorVars, csvfile, pc, calls, result, before>>
  /\ UNCHANGED <<outputVars, monitorVars>>

\* the reader is exhausted: the loop ends and the call returns
EndOfFile ==
  /\ pc = "rows"
  /\ csvreader = Len(csvfile)
  /\ result' = "None"
  /\ pc' = "returned"
  /\ UNCHANGED <<extractorVars, objectVars, stdout, csvLine, csvfile,
                 csvreader, calls, before>>
  /\ UNCHANGED <<outputVars, monitorVars>>

\* cableDoc.clear(): clear is defined without self, so the call raises
\* TypeError before its body runs and the object is as it was
Clear ==
  /\ pc = "returned"
  /\ pc' = "raised"
  /\ UNCHANGED <<extractorVars, objectVars, stdout, csvLine, csvfile,
                 csvreader, calls, result, before>>
  /\ UNCHANGED <<outputVars, monitorVars>>

\* cableDoc = XMLCablesDocument(): a new object takes the place of the old
Construct ==
  /\ pc \in {"returned", "raised"}
  /\ root' = Element("root", <<>>)
  /\ hasXmlString' = FALSE
  /\ xmlString' = <<>>
  /\ pc' = "new"
  /\ UNCHANGED <<extractorVars, stdout, csvLine, csvfile, csvreader, calls,
                 result, before>>
  /\ UNCHANGED <<outputVars, monitorVars>>

Next ==
  \/ ParseEmptyFile
  \/ ParseFirstRow
  \/ HaltOnMalformed
  \/ ParseRecord
  \/ EndOfFile
  \/ Clear
  \/ Construct

Spec == Init /\ [][Next]_vars

(***************************************************************************)
(* writeToFile after, before or between parseCSVFile calls on one object.  *)
(***************************************************************************)
ErrNotValid ==
  "ERROR: XML generated not valid. No file genereated. Did you parse a valid CSV file?"

ErrWrite == "ERROR: Unable to write xml file."

\* the files of the writeToFile specification: the empty file, and a first
\* row followed by up to MaxWriteRows rows
WriteFilePool ==
  {<<>>} \cup
  {<<h>> \o rows : h \in FirstRowPool,
                   rows \in UNION {[1..n -> RowPool] : n \in 0..MaxWriteRows}}

\* xmlFilePath names no file, or a file written earlier
OutputPool ==
  {[exists |-> FALSE, content |-> <<>>],
   [exists |-> TRUE,  content |-> <<"O", "L", "D">>]}

InitWrite ==
  /\ InitObject
  /\ NoExtractor
  /\ csvfile \in WriteFilePool
  /\ csvreader = 0
  /\ pc = "new"
  /\ result = "None"
  /\ before = [cables |-> 0, printed |-> 0]
  /\ stdout = <<>>
  /\ csvLine = <<>>
  /\ calls = 0
  /\ xmlFile \in OutputPool
  /\ writes = 0
  /\ NoMonitor

\* writeToFile when open(xmlFilePath, 'w') succeeds: the file is created or
\* emptied before the with block runs.  Without the attribute xmlString
\* the block raises AttributeError, which is caught and reported; when the
\* parser refuses xmlString its error leaves the call; else the pretty
\* print is written
WriteToFile ==
  /\ pc \in {"new", "returned"}
  /\ writes < MaxWrites
  /\ writes' = writes + 1
  /\ IF ~hasXmlString
     THEN /\ xmlFile' = [exists |-> TRUE, content |-> <<>>]
          /\ stdout' = Append(stdout, ErrNotValid)
          /\ pc' = pc
     ELSE IF ~WellFormed(root)
     THEN /\ xmlFile' = [exists |-> TRUE, content |-> <<>>]
          /\ stdout' = stdout
          /\ pc' = "raised"
     ELSE /\ xmlFile' = [exists |-> TRUE, content |-> toprettyxml(parseString(root))]
          /\ stdout' = stdout
          /\ pc' = pc
  /\ UNCHANGED <<extractorVars, objectVars, csvLine, csvfile, csvreader, calls,
                 result, before, monitorVars>>

\* writeToFile when open(xmlFilePath, 'w') raises IOError: reported, and
\* nothing is written
WriteToFileDenied ==
  /\ pc \in {"new", "returned"}
  /\ writes < MaxWrites
  /\ writes' = writes + 1
  /\ stdout' = Append(stdout, ErrWrite)
  /\ UNCHANGED <<extractorVars, objectVars, csvLine, csvfile, csvreader, calls,
                 result, before, pc, xmlFile, monitorVars>>

NextWrite ==
  \/ ParseEmptyFile
  \/ ParseFirstRow
  \/ HaltOnMalformed
  \/ ParseRecord
  \/ EndOfFile
  \/ WriteToFile
  \/ WriteToFileDenied

SpecWrite == InitWrite /\ [][NextWrite]_vars

(***************************************************************************)
(* CSVMonitor.  A file of a folder is [exists, locked, rows]: locked when  *)
(* another process still writes it, so that open() raises IOError; rows    *)
(* are the records csv.reader returns.  A log message is the tuple of its  *)
(* format and its arguments, without the time stamp; a path is the tuple   *)
(* of its folder and its file name.                                        *)
(***************************************************************************)
\* FolderWatchDog.ACTIONS
CREATED == 1

DELETED == 2

UPDATED == 3

RENAME_FROM == 4

RENAME_TO == 5

\* s.endswith(suffix)
EndsWith(s, suffix) ==
  Len(s) >= Len(suffix) /\ SubSeq(s, Len(s) - Len(suffix) + 1, Len(s)) = suffix

LogStatus   == "STATUS: Folder monitor launched successfully. Observing \"%s\""

LogEmpty    == "ERROR: File \"%s\" is empty."

LogLength   ==
  "ERROR: Record at line %d of \"%s\" was of length %d. Expected previous lines' length of %d items."

LogSuccess  == "SUCCESS: \"%s\" successfully processed. Moved to \"%s\""

LogFailure  == "FAILURE: \"%s\" processing failed. Moved to \"%s\""

LogNoMove   == "ERROR: Unable to move file \"%s\"."

LogExists   ==
  "ERROR: Unable to move file to \"%s\" because a file already exists with that name."

\* parseCSV with the empty file taken for a file of records of one length
parseCSVEmptyOk(file, fullFilename) ==
  LET firstLineLength == Len(file.rows[1])
      differ == {k \in 2..Len(file.rows) : Len(file.rows[k]) # firstLineLength}
      line(k) == <<LogLength, k, fullFilename, Len(file.rows[k]), firstLineLength>>
  IN  IF file.rows = <<>>
      THEN [successful |-> TRUE, logged |-> <<>>]
      ELSE IF differ # {}
      THEN [successful |-> FALSE,
            logged |-> <<line(CHOOSE k \in differ : \A j \in differ : k <= j)>>]
      ELSE [successful |-> TRUE, logged |-> <<>>]

\* parseCSV(fullFilename) on a file that opens: what it returns and what
\* it logs.  The first record that differs in length from the first one
\* ends the scan
parseCSV(file, fullFilename) ==
  LET firstLineLength == Len(file.rows[1])
      differ == {k \in 2..Len(file.rows) : Len(file.rows[k]) # firstLineLength}
      line(k) == <<LogLength, k, fullFilename, Len(file.rows[k]), firstLineLength>>
  IN  IF file.rows = <<>>
      THEN [successful |-> FALSE, logged |-> <<<<LogEmpty, fullFilename>>>>]
      ELSE IF differ # {}
      THEN [successful |-> FALSE,
            logged |-> <<line(CHOOSE k \in differ : \A j \in differ : k <= j)>>]
      ELSE [successful |-> TRUE, logged |-> <<>>]

\* safeMove without the os.path.exists test: shutil.move replaces the file
safeMoveOverwrites(fs, filename, target) ==
  [moved  |-> TRUE,
   logged |-> <<>>,
   fs     |-> [fs EXCEPT ![target][filename] = fs.watched[filename],
                         !.watched[filename] = NoSuchFile]]

\* safeMove(fromPath, toPath) on the folders fs, from the watched folder to
\* the folder `target`: whether it moved, what it logged, and the folders
\* after it
safeMove(fs, filename, target) ==
  IF fs[target][filename].exists
  THEN [moved  |-> FALSE,
        logged |-> <<<<LogExists, <<target, filename>>>>>>,
        fs     |-> fs]
  ELSE [moved  |-> TRUE,
        logged |-> <<>>,
        fs     |-> [fs EXCEPT ![target][filename] = fs.watched[filename],
                              !.watched[filename] = NoSuchFile]]

\* processFile(filename) on the folders fs: what it returns, what it logs
\* and the folders after it.  open() raises IOError for a name without a
\* file and for a locked file; the error is suppressed
processFile(fs, filename) ==
  LET fullFilename == <<"watched", filename>>
      done(parsed, target, logText) ==
        LET finish(move) ==
              [successful |-> parsed.successful,
               logged |-> parsed.logged \o move.logged \o
                          (IF move.moved THEN <<<<logText, filename, <<target, filename>>>>>>
                           ELSE <<<<LogNoMove, filename>>>>),
               fs |-> move.fs]
        IN  finish(safeMove(fs, filename, target))
      route(parsed) ==
        IF parsed.successful THEN done(parsed, "success", LogSuccess)
        ELSE done(parsed, "failure", LogFailure)
  IN  IF ~fs.watched[filename].exists \/ fs.watched[filename].locked
      THEN [successful |-> FALSE, logged |-> <<>>, fs |-> fs]
      ELSE route(parseCSV(fs.watched[filename], fullFilename))

\* the files dropped into the watched folder
FileEmpty  == [exists |-> TRUE, locked |-> FALSE, rows |-> <<>>]

FileOneRow == [exists |-> TRUE, locked |-> FALSE, rows |-> <<FirstRowShort>>]

FileSame   == [exists |-> TRUE, locked |-> FALSE,
               rows |-> <<FirstRowShort, FirstRowShort, FirstRowShort>>]

FileDiffer == [exists |-> TRUE, locked |-> FALSE,
               rows |-> <<FirstRowShort, FirstRowShort, <<<<"i">>, <<"d">>>>>>]

FileLocked == [exists |-> TRUE, locked |-> TRUE,
               rows |-> <<FirstRowShort, FirstRowShort>>]

\* a file that was moved to the success or the failure folder earlier
FileOld    == [exists |-> TRUE, locked |-> FALSE, rows |-> <<<<<<"o">>>>>>]

\* the notifications of a report
NotificationPool ==
  {<<UPDATED, NameA>>, <<RENAME_TO, NameA>>, <<CREATED, NameA>>,
   <<UPDATED, NameB>>, <<UPDATED, NameTxt>>}

ReportPool == UNION {[1..n -> NotificationPool] : n \in 1..MaxReport}

\* the folders as processFile takes them
Folders == [watched |-> folder, success |-> successFolder, failure |-> failureFolder]

InitMonitor ==
  /\ InitObject
  /\ NoExtractor
  /\ NoFile
  /\ NoOutput
  /\ stdout = <<>>
  /\ csvLine = <<>>
  /\ calls = 0
  /\ \E a \in {NoSuchFile, FileEmpty, FileOneRow, FileSame, FileDiffer, FileLocked},
        b \in {NoSuchFile, FileSame} :
       folder = [n \in FileNames |->
                   IF n = NameA THEN a ELSE IF n = NameB THEN b ELSE FileOneRow]
  /\ \E s \in {NoSuchFile, FileOld} :
       successFolder = [n \in FileNames |-> IF n = NameA THEN s ELSE NoSuchFile]
  /\ \E f \in {NoSuchFile, FileOld} :
       failureFolder = [n \in FileNames |-> IF n = NameA THEN f ELSE NoSuchFile]
  /\ log = <<>>
  /\ watchdogReport = <<>>
  /\ reportIndex = 1
  /\ processedFiles = {}
  /\ attempted = <<>>
  /\ batches = 0
  /\ mpc = "off"

parserVars ==
  <<extractorVars, objectVars, fileVars, outputVars, stdout, csvLine, calls>>

\* monitorLoop up to the loop: the watchdog is opened and the launch logged
Launch ==
  /\ mpc = "off"
  /\ log' = Append(log, <<LogStatus, "watched">>)
  /\ mpc' = "wait"
  /\ UNCHANGED <<parserVars, folder, successFolder, failureFolder,
                 watchdogReport, reportIndex, processedFiles, attempted, batches>>

\* processedFiles = set(); watchdogReport = getFolderWriteActions()
GetFolderWriteActions ==
  /\ mpc = "wait"
  /\ batches < MaxBatches
  /\ batches' = batches + 1
  /\ watchdogReport' \in ReportPool
  /\ reportIndex' = 1
  /\ processedFiles' = {}
  /\ attempted' = <<>>
  /\ mpc' = "report"
  /\ UNCHANGED <<parserVars, folder, successFolder, failureFolder, log>>

\* the notification at hand passes the two ifs of the for loop
Eligible ==
  /\ watchdogReport[reportIndex][1] \in {UPDATED, RENAME_TO}
  /\ EndsWith(watchdogReport[reportIndex][2], <<".", "c", "s", "v">>)
  /\ watchdogReport[reportIndex][2] \notin processedFiles

\* a pass of the for loop on a notification that is not processed
SkipNotification ==
  /\ mpc = "report"
  /\ reportIndex <= Len(watchdogReport)
  /\ ~Eligible
  /\ reportIndex' = reportIndex + 1
  /\ UNCHANGED <<parserVars, folder, successFolder, failureFolder, log,
                 watchdogReport, processedFiles, attempted, batches, mpc>>

\* a pass of the for loop that calls processFile, and adds the file to
\* processedFiles when the call returns True
ProcessNotification ==
  /\ mpc = "report"
  /\ reportIndex <= Len(watchdogReport)
  /\ Eligible
  /\ \E after \in {processFile(Folders, watchdogReport[reportIndex][2])} :
       /\ folder' = after.fs.watched
       /\ successFolder' = after.fs.success
       /\ failureFolder' = after.fs.failure
       /\ log' = log \o after.logged
       /\ processedFiles' =
            IF after.successful
            THEN processedFiles \cup {watchdogReport[reportIndex][2]}
            ELSE processedFiles
  /\ attempted' = Append(attempted, watchdogReport[reportIndex][2])
  /\ reportIndex' = reportIndex + 1
  /\ UNCHANGED <<parserVars, watchdogReport, batches, mpc>>

\* the for loop ends; the while loop goes round
EndOfReport ==
  /\ mpc = "report"
  /\ reportIndex > Len(watchdogReport)
  /\ mpc' = "wait"
  /\ UNCHANGED <<parserVars, folder, successFolder, failureFolder, log,
                 watchdogReport, reportIndex, processedFiles, attempted, batches>>

NextMonitor ==
  \/ Launch
  \/ GetFolderWriteActions
  \/ SkipNotification
  \/ ProcessNotification
  \/ EndOfReport

SpecMonitor == InitMonitor /\ [][NextMonitor]_vars

(***************************************************************************)
(* Properties of the content extractor (SpecContent).                      *)
(***************************************************************************)
\* the children of a node that carry a tag, in order
ChildrenOf(node, tag) == SelectSeq(node.children, LAMBDA c : c.tag = tag)

Present(node, tag) == ChildrenOf(node, tag) # <<>>

\* the target fields in scan order, and the number of each stage
Fields == <<"eoline", "tags", "subject", "ref">>

StageNo ==
  [eoline |-> 1, tags |-> 2, subject |-> 3, ref |-> 4, fullText |-> 5,
   return |-> 6]

\* the loop of the k-th field has run
Scanned(k) == StageNo[stage] > k

\* the node a field's line is recorded as
NodeOf(field, line) ==
  IF field = "tags" THEN TagsElement(PatternOf(field, line).group)
  ELSE TextElement(field, Strip(PatternOf(field, line).group))

\* the first line with an index above i that matches the field, or 0
FirstAfter(lines, i, field) ==
  LET hits == {j \in (i + 1)..Len(lines) : PatternOf(field, lines[j]).hit}
  IN  IF hits = {} THEN 0 ELSE CHOOSE j \in hits : \A h \in hits : j <= h

\* the field after Fields[k] is recorded from line j, or not at all if j = 0
NextRecordedFrom(k, j) ==
  LET g == Fields[k + 1]
  IN  /\ frame.matched[g] = j
      /\ Present(frame.contentNode, g) <=> j # 0
      /\ j # 0 =>
           ChildrenOf(frame.contentNode, g) = <<NodeOf(g, frame.cableLines[j])>>

\* the content of the reset law: "SUBJECT: Hello", then "TAGS: a, b"
ResetLawContent == JoinLines(<<LineSubject, LineTags>>)

TagTexts(node) ==
  LET t == ChildrenOf(node, "tags")
  IN  IF t = <<>> THEN <<>> ELSE [k \in 1..Len(t[1].children) |-> t[1].children[k].text]

\* C1 as stated: for ["SUBJECT: Hello", "TAGS: a, b"] the call records no
\* eoline, the tags [a, b] from line 1 and the subject "Hello" from line 0
\* (lines counted from 0; matched counts them from 1).
C1_ResetLawAsStated ==
  (contentText = ResetLawContent /\ stage = "return") =>
    /\ ~Present(frame.contentNode, "eoline")
    /\ frame.matched.tags = 2
    /\ TagTexts(frame.contentNode) = << <<"a">>, <<"b">> >>
    /\ frame.matched.subject = 1
    /\ ChildrenOf(frame.contentNode, "subject") =
         <<TextElement("subject", <<"H", "e", "l", "l", "o">>)>>

\* C1 amended: for ["SUBJECT: Hello", "TAGS: a, b"] the call records no
\* eoline and the tags [a, b] from line 1; the TAGS hit on the last line
\* leaves no line for the SUBJECT scan, so no subject is recorded and the
\* SUBJECT warning is printed.
C1_ResetLaw ==
  (contentText = ResetLawContent /\ stage = "return") =>
    /\ ~Present(frame.contentNode, "eoline")
    /\ frame.matched.tags = 2
    /\ TagTexts(frame.contentNode) = << <<"a">>, <<"b">> >>
    /\ frame.matched.subject = 0
    /\ ~Present(frame.contentNode, "subject")
    /\ frame.printed = <<WarnEO, WarnSubject>>

C1_Witness == contentText = ResetLawContent /\ stage = "return"

\* C4: when a field of E.O., TAGS, SUBJECT is found at line i, the next
\* field is recorded exactly when a line above i matches it, from the first
\* such line; no line at or below i is used.
C4_AdvanceOnHit ==
  \A k \in 1..3 :
    (Scanned(k + 1) /\ frame.matched[Fields[k]] # 0) =>
      NextRecordedFrom(k, FirstAfter(frame.cableLines,
                                     frame.matched[Fields[k]], Fields[k + 1]))

\* E.O. found on the second line, a TAGS line before it and one after it
C4_Witness ==
  /\ stage = "subject"
  /\ frame.matched.eoline = 2
  /\ MatchTags(frame.cableLines[1]).hit
  /\ frame.matched.tags = 3

\* C5: when a field of E.O., TAGS, SUBJECT is not found, the next field is
\* recorded exactly when any line of the content matches it, from the first
\* such line, also when that line lies before the line of an earlier hit.
C5_ResetOnMiss ==
  \A k \in 1..3 :
    (Scanned(k + 1) /\ frame.matched[Fields[k]] = 0) =>
      NextRecordedFrom(k, FirstAfter(frame.cableLines, 0, Fields[k + 1]))

\* TAGS missed, SUBJECT then found on a line before the E.O. line
C5_Witness ==
  /\ stage = "ref"
  /\ frame.matched.tags = 0
  /\ frame.matched.subject # 0
  /\ frame.matched.subject < frame.matched.eoline

\* the number of times a message was printed
Count(printed, msg) == Cardinality({k \in 1..Len(printed) : printed[k] = msg})

Absent(fields) == {g \in fields : ~Present(frame.contentNode, g)}

\* C6 as stated: the call prints one warning for each of the four fields
\* E.O., TAGS, SUBJECT, REF it records absent, and none for a present one.
C6_WarningPerFieldAsStated ==
  stage = "return" =>
    Len(frame.printed) =
      Cardinality(Absent({"eoline", "tags", "subject", "ref"}))

\* C6 amended: the call prints exactly one warning for each of the three
\* fields E.O., TAGS, SUBJECT it records absent, none for one it records
\* present, and none for REF, absent or present.
C6_WarningPerField ==
  stage = "return" =>
    /\ Count(frame.printed, WarnEO) =
         (IF Present(frame.contentNode, "eoline") THEN 0 ELSE 1)
    /\ Count(frame.printed, WarnTags) =
         (IF Present(frame.contentNode, "tags") THEN 0 ELSE 1)
    /\ Count(frame.printed, WarnSubject) =
         (IF Present(frame.contentNode, "subject") THEN 0 ELSE 1)
    /\ Len(frame.printed) =
         Cardinality(Absent({"eoline", "tags", "subject"}))

\* a call that missed TAGS and REF and found the other two
C6_Witness ==
  /\ stage = "return"
  /\ Absent({"eoline", "tags", "subject", "ref"}) = {"tags", "ref"}

\* C9: no eoline, subject or ref with empty text and no tags block without
\* a tag (count 0) is in a content block.
C9_NoEmptyPlaceholder ==
  \A k \in 1..Len(frame.contentNode.children) :
    LET c == frame.contentNode.children[k]
    IN  /\ c.tag \in {"eoline", "subject", "ref"} => (c.hasText /\ c.text # <<>>)
        /\ c.tag = "tags" =>
             (c.children # <<>> /\ c.attrib # << <<"count", <<"0">> >> >>)

\* the value of a Python string literal; a text that is no literal (a raw
\* quote or control character, a dangling backslash) decodes to Undecodable
Undecodable == <<"undecodable">>

RECURSIVE LiteralBody(_, _)
LiteralBody(b, q) ==
  LET rest(n) == LiteralBody(SubSeq(b, n + 1, Len(b)), q)
  IN  IF b = <<>> THEN <<>>
      ELSE IF b[1] = "\\"
      THEN IF Len(b) >= 2 /\ b[2] \in {"\\", "'", "\""} THEN <<b[2]>> \o rest(2)
           ELSE IF Len(b) >= 2 /\ b[2] = "n" THEN <<"\n">> \o rest(2)
           ELSE IF Len(b) >= 2 /\ b[2] = "r" THEN <<"\r">> \o rest(2)
           ELSE IF Len(b) >= 2 /\ b[2] = "t" THEN <<"\t">> \o rest(2)
           ELSE IF Len(b) >= 4 /\ SubSeq(b, 2, 4) = <<"x", "0", "c">>
                THEN <<"\f">> \o rest(4)
           ELSE Undecodable
      ELSE IF b[1] = q \/ b[1] \in {"\n", "\r", "\t", "\f"} THEN Undecodable
      ELSE <<b[1]>> \o rest(1)

LiteralValue(t) ==
  IF Len(t) >= 2 /\ t[1] \in {"'", "\""} /\ t[Len(t)] = t[1]
  THEN LiteralBody(SubSeq(t, 2, Len(t) - 1), t[1])
  ELSE Undecodable

\* t is s without its leading and trailing white space
IsTrimOf(t, s) ==
  /\ t # <<>> => (t[1] \notin SpaceChar /\ t[Len(t)] \notin SpaceChar)
  /\ \E a \in 0..(Len(s) - Len(t)) :
       /\ SubSeq(s, a + 1, a + Len(t)) = t
       /\ \A k \in 1..a : s[k] \in SpaceChar
       /\ \A k \in (a + Len(t) + 1)..Len(s) : s[k] \in SpaceChar

\* C10: at return the content block holds exactly one fullText, the last
\* child, and its text is a string literal of the content blob without its
\* leading and trailing white space, whichever fields were found.
C10_FullTextMandatory ==
  stage = "return" =>
    LET ft == ChildrenOf(frame.contentNode, "fullText")
        n  == Len(frame.contentNode.children)
    IN  /\ Len(ft) = 1
        /\ frame.contentNode.children[n] = ft[1]
        /\ ft[1].hasText
        /\ IsTrimOf(LiteralValue(ft[1].text), contentText)

\* all four fields found, in a blob that ends in white space
C10_Witness ==
  /\ stage = "return"
  /\ Absent({"eoline", "tags", "subject", "ref"}) = {}
  /\ contentText[Len(contentText)] \in SpaceChar

(***************************************************************************)
(* Properties of parseCSVLine (SpecLine) and of parseCSVFile (Spec).       *)
(***************************************************************************)
\* the children of a node that do not carry a tag, in order
ChildrenBut(node, tag) == SelectSeq(node.children, LAMBDA c : c.tag # tag)

\* C2: after parseCSVLine on a record whose header does not match the
\* pattern, the cable has no header node at all, the header warning was
\* printed once, and the rest of the cable is what the same record with a
\* matching header gives.
C2_HeaderAllOrNothing ==
  (pc = "returned" /\ csvLine # <<>> /\ ~MatchHeader(csvLine[7]).hit) =>
    LET cable == root.children[Len(root.children)]
        twin  == CableElement([csvLine EXCEPT ![7] = HeaderFull])
    IN  /\ ~Present(cable, "header")
        /\ Count(stdout, WarnHeader) = 1
        /\ cable.attrib = twin.attrib
        /\ ChildrenBut(cable, "header") = ChildrenBut(twin, "header")

\* the index of the first row at or after row `from` that does not have
\* eight fields, or 0
FirstBadRow(file, from) ==
  LET bad == {k \in from..Len(file) : Len(file[k]) # 8}
  IN  IF bad = {} THEN 0 ELSE CHOOSE k \in bad : \A j \in bad : k <= j

\* the lines printed by the latest parseCSVFile call
PrintedByCall == SubSeq(stdout, before.printed + 1, Len(stdout))

C7_WarningsNeverHalt ==
  [][(pc = "rows" /\ csvreader < Len(csvfile)
                  /\ Len(csvfile[csvreader + 1]) = 8) =>
       LET row   == csvfile[csvreader + 1]
           n     == Len(root.children)
           cable == root'.children[n + 1]
       IN  /\ Len(root'.children) = n + 1
           /\ SubSeq(root'.children, 1, n) = root.children
           /\ cable.tag = "cable"
           /\ cable.attrib = << <<"idInSource", row[1]>> >>
           /\ ChildrenOf(cable, "reference") = <<TextElement("reference", row[3])>>
           /\ ChildrenOf(cable, "origin") = <<TextElement("origin", row[4])>>
           /\ ChildrenOf(cable, "classification") =
                <<TextElement("classification", row[5])>>
           /\ pc' = "rows"
           /\ csvreader' = csvreader + 1
           /\ Count(stdout', ErrMalformed) = Count(stdout, ErrMalformed)]_vars

\* the row that raises the timestamp, header and content warnings was
\* parsed as the first record and the record after it was parsed too
C7_Witness ==
  /\ pc = "rows"
  /\ csvreader = 3
  /\ csvfile[2] = RowWarn
  /\ Len(csvfile[3]) = 8
  /\ Len(root.children) = before.cables + 2
  /\ SubSeq(PrintedByCall, 1, 5) =
       <<WarnTime, WarnHeader, WarnEO, WarnTags, WarnSubject>>

\* the cables of a parse of the file by a new object
ParsedAlone(file) ==
  LET k == FirstBadRow(file, 2)
      n == IF k = 0 THEN Len(file) - 1 ELSE k - 2
  IN  [j \in 1..n |-> CableElement(file[j + 1])]

\* C8: whenever a parseCSVFile call on a file with only rows of 8 fields
\* has returned, the Document is the one a parse of the file by a new
\* object gives, also when the object has parsed before.
C8_RoundTripIdempotence ==
  (pc = "returned" /\ csvfile # <<>> /\ FirstBadRow(csvfile, 1) = 0) =>
    root.children = ParsedAlone(csvfile)

(***************************************************************************)
(* Properties of the date, header and sources blocks (SpecLine).           *)
(***************************************************************************)
\* the cable the latest parseCSVLine call appended
LastCable == root.children[Len(root.children)]

\* the tags of the children of a node, in order
TagsOf(node) == [k \in 1..Len(node.children) |-> node.children[k].tag]

\* the value of an attribute of a node
Attr(node, name) ==
  LET at == {k \in 1..Len(node.attrib) : node.attrib[k][1] = name}
  IN  node.attrib[CHOOSE k \in at : TRUE][2]

DateTags == {"year", "month", "day", "hour", "minute"}

\* C11: after parseCSVLine the cable has either all five of year, month,
\* day, hour and minute, once each, or none of them; when the timestamp does
\* not parse it has none, the timestamp warning was printed exactly once,
\* and reference, origin and classification carry their fields and the
\* sources, header and content blocks are there.
C11_DateTimeAllOrNothing ==
  (pc = "returned" /\ csvLine # <<>>) =>
    LET cable == LastCable
        have  == {t \in DateTags : Present(cable, t)}
    IN  /\ have = {} \/ have = DateTags
        /\ \A t \in DateTags : Len(ChildrenOf(cable, t)) <= 1
        /\ strptime(csvLine[2]).ok => (have = DateTags /\ Count(stdout, WarnTime) = 0)
        /\ ~strptime(csvLine[2]).ok =>
             /\ have = {}
             /\ Count(stdout, WarnTime) = 1
             /\ ChildrenOf(cable, "reference") = <<TextElement("reference", csvLine[3])>>
             /\ ChildrenOf(cable, "origin") = <<TextElement("origin", csvLine[4])>>
             /\ ChildrenOf(cable, "classification")
                  = <<TextElement("classification", csvLine[5])>>
             /\ \A t \in {"sources", "header", "content"} :
                  Len(ChildrenOf(cable, t)) = 1

\* a record whose day is not a day of its month has been parsed
C11_Witness ==
  /\ pc = "returned"
  /\ csvLine # <<>>
  /\ csvLine[2] = TimeBadDay
  /\ ~Present(LastCable, "year")

\* the lines of a captured group, each trimmed
TrimmedLines(group) ==
  LET lines == SplitLines(Strip(group))
  IN  [k \in 1..Len(lines) |-> Strip(lines[k])]

\* a list element holds these entries, in order, and counts them
HoldsEntries(list, entries) ==
  /\ list.attrib = << <<"count", Str(Len(list.children))>> >>
  /\ list.children = [k \in 1..Len(entries) |-> TextElement("institution", entries[k])]

\* C12: after parseCSVLine on a record whose header matches the pattern,
\* the header block holds ref, month, year, from, to and info; every list
\* counts its institution entries, which are the trimmed lines of the
\* captured group in their order; from and to have at least one entry, and
\* info has none exactly when the INFO group took no part in the match.
C12_HeaderLists ==
  (pc = "returned" /\ csvLine # <<>> /\ MatchHeader(csvLine[7]).hit) =>
    LET header == ChildrenOf(LastCable, "header")[1]
        m      == MatchHeader(csvLine[7])
        from   == ChildrenOf(header, "from")[1]
        to     == ChildrenOf(header, "to")[1]
        info   == ChildrenOf(header, "info")[1]
    IN  /\ TagsOf(header) = <<"ref", "month", "year", "from", "to", "info">>
        /\ HoldsEntries(from, TrimmedLines(m.fromlist))
        /\ HoldsEntries(to, TrimmedLines(m.tolist))
        /\ HoldsEntries(info, IF m.hasInfo THEN TrimmedLines(m.infolist) ELSE <<>>)
        /\ Len(from.children) >= 1
        /\ Len(to.children) >= 1
        /\ (Attr(info, "count") = <<"0">>) <=> ~m.hasInfo

\* a header with two FM lines and no INFO part has been parsed
C12_Witness ==
  /\ pc = "returned"
  /\ csvLine # <<>>
  /\ csvLine[7] = HeaderNoInfo
  /\ Attr(ChildrenOf(ChildrenOf(LastCable, "header")[1], "from")[1], "count") = <<"2">>
  /\ Attr(ChildrenOf(ChildrenOf(LastCable, "header")[1], "info")[1], "count") = <<"0">>

\* the pieces of a text between the separators c, left to right
RECURSIVE PiecesOf(_, _)
PiecesOf(s, c) ==
  IF \A k \in 1..Len(s) : s[k] # c THEN <<s>>
  ELSE LET k == CHOOSE i \in 1..Len(s) :
                  s[i] = c /\ \A j \in 1..(i - 1) : s[j] # c
       IN  <<SubSeq(s, 1, k - 1)>> \o PiecesOf(SubSeq(s, k + 1, Len(s)), c)

\* C13: after parseCSVLine the count attribute of the sources block is the
\* number of its source children; the empty field gives count 0 and no
\* child, and any other field gives one child for each of its pieces
\* between the | characters, unmodified and in the order of the field.
C13_SourcesCountAndOrder ==
  (pc = "returned" /\ csvLine # <<>>) =>
    LET sources == ChildrenOf(LastCable, "sources")[1]
        pieces  == PiecesOf(csvLine[6], "|")
    IN  /\ sources.attrib = << <<"count", Str(Len(sources.children))>> >>
        /\ csvLine[6] = <<>> =>
             (sources.children = <<>> /\ Attr(sources, "count") = <<"0">>)
        /\ csvLine[6] # <<>> =>
             sources.children = [k \in 1..Len(pieces) |-> TextElement("source", pieces[k])]

\* "A|B|C" has been parsed into three sources
C13_Witness ==
  /\ pc = "returned"
  /\ csvLine # <<>>
  /\ csvLine[6] = SourcesThree
  /\ Attr(ChildrenOf(LastCable, "sources")[1], "count") = <<"3">>
  /\ ChildrenOf(LastCable, "sources")[1].children
       = <<TextElement("source", <<"A">>), TextElement("source", <<"B">>),
           TextElement("source", <<"C">>)>>

(***************************************************************************)
(* The Document under parseCSVFile (Spec).                                 *)
(***************************************************************************)
\* C14: every step of parseCSVFile, and every step but the construction of
\* a new object, leaves the cables of the Document where they were and as
\* they were; the step that reads a row of 8 fields adds at the end the one
\* cable made of that row, and every other step adds none.
C14_AppendOnly ==
  [][pc' # "new" =>
       /\ Len(root'.children) >= Len(root.children)
       /\ SubSeq(root'.children, 1, Len(root.children)) = root.children
       /\ IF pc = "rows" /\ csvreader < Len(csvfile)
                         /\ Len(csvfile[csvreader + 1]) = 8
          THEN /\ Len(root'.children) = Len(root.children) + 1
               /\ root'.children[Len(root'.children)].attrib
                    = << <<"idInSource", csvfile[csvreader + 1][1]>> >>
          ELSE root'.children = root.children]_vars

\* a parse has halted on a malformed row after it warned about one record
\* and appended another
C14_Witness ==
  /\ pc = "returned"
  /\ Count(PrintedByCall, ErrMalformed) = 1
  /\ Count(PrintedByCall, WarnTime) = 1
  /\ Len(root.children) = 2
  /\ root.children[1].attrib = << <<"idInSource", RowWarn[1]>> >>
  /\ root.children[2].attrib = << <<"idInSource", RowGood[1]>> >>

\* the cables the latest parseCSVFile call added
AddedByCall == SubSeq(root.children, before.cables + 1, Len(root.children))

RankOf(tag) ==
  CASE tag = "eoline"   -> 1
    [] tag = "tags"     -> 2
    [] tag = "subject"  -> 3
    [] tag = "ref"      -> 4
    [] tag = "fullText" -> 5
    [] OTHER            -> 0

\* C17: at every point of parseCableMessageText the children of the content
\* block stand in the order eoline, tags, subject, ref, fullText, each at
\* most once, whatever lines matched and in whatever order they stand in the
\* text.
C17_ContentOrder ==
  LET tags == TagsOf(frame.contentNode)
  IN  /\ \A k \in 1..Len(tags) : RankOf(tags[k]) # 0
      /\ \A j, k \in 1..Len(tags) : j < k => RankOf(tags[j]) < RankOf(tags[k])

\* the call has returned after it matched a later target field on an
\* earlier line than the field before it, and recorded both and the ref
C17_Witness ==
  /\ stage = "return"
  /\ frame.matched.subject # 0
  /\ frame.matched.subject < frame.matched.eoline
  /\ frame.matched.ref # 0
  /\ TagsOf(frame.contentNode) = <<"eoline", "subject", "ref", "fullText">>

(***************************************************************************)
(* writeToFile on a Document without a cable (SpecWrite).                  *)
(***************************************************************************)
\* C20: a writeToFile call on an object that never parsed a record prints
\* an error, raises nothing, leaves what is at xmlFilePath as it was (no
\* file where there was none, the same content where there was one) and
\* leaves the Document as it was.
C20_NothingToSerialize ==
  [][(writes' = writes + 1 /\ ~hasXmlString /\ root.children = <<>>) =>
       /\ Len(stdout') = Len(stdout) + 1
       /\ stdout'[Len(stdout')] \in {ErrNotValid, ErrWrite}
       /\ pc' = pc
       /\ xmlFile' = xmlFile
       /\ root' = root
       /\ hasXmlString' = hasXmlString]_vars

(***************************************************************************)
(* Properties of the folder monitor (SpecMonitor).                         *)
(***************************************************************************)
\* the file has a record and all its records have one length
OneLength(file) ==
  /\ file.rows # <<>>
  /\ \A j, k \in 1..Len(file.rows) : Len(file.rows[j]) = Len(file.rows[k])

\* the step takes the file of that name out of the watched folder
Leaves(n) == folder[n].exists /\ ~folder'[n].exists

\* C15: a step that takes a file out of the watched folder puts it, as it
\* was, into the success folder when it has a record and all its records
\* have one length, and into the failure folder when it is empty or a
\* record differs in length; it puts it into one of the two only, and
\* nothing comes into the success or the failure folder in another way.
C15_MonitorVerdict ==
  [][\A n \in FileNames :
       /\ Leaves(n) =>
            IF OneLength(folder[n])
            THEN /\ successFolder' = [successFolder EXCEPT ![n] = folder[n]]
                 /\ failureFolder' = failureFolder
            ELSE /\ failureFolder' = [failureFolder EXCEPT ![n] = folder[n]]
                 /\ successFolder' = successFolder
       /\ ~Leaves(n) =>
            /\ folder'[n] = folder[n]
            /\ successFolder'[n] = successFolder[n]
            /\ failureFolder'[n] = failureFolder[n]]_vars

\* a file of records of one length is in the success folder and a file
\* with a shorter third record is in the failure folder
C15_Witness ==
  /\ successFolder[NameB] = FileSame
  /\ failureFolder[NameA] = FileDiffer
  /\ ~folder[NameA].exists
  /\ ~folder[NameB].exists

\* C18 : within one report of the watchdog, processFile is called at most
\* once for each file name, however many notifications name the file and
\* whatever the call did.
C18_ProcessOncePerBatch ==
  \A n \in FileNames : Count(attempted, n) <= 1

\* the messages the step logs
Logged == SubSeq(log', Len(log) + 1, Len(log'))

\* the messages among them of a format
LoggedAs(format) == {k \in 1..Len(Logged) : Logged[k][1] = format}

\* C19: when processFile is called for a file that opens and a file of its
\* name is in the folder its verdict sends it to, the three folders stay
\* as they are, the call logs that a file of the name exists and that it
\* could not move the file, and logs neither SUCCESS nor FAILURE; a file
\* leaves the watched folder only when no file of its name is in the
\* folder it goes to.
C19_SafeMoveNeverOverwrites ==
  [][/\ Len(attempted') = Len(attempted) + 1 =>
          LET n    == attempted'[Len(attempted')]
              dest == IF OneLength(folder[n]) THEN successFolder ELSE failureFolder
          IN  (folder[n].exists /\ ~folder[n].locked /\ dest[n].exists) =>
                /\ folder' = folder
                /\ successFolder' = successFolder
                /\ failureFolder' = failureFolder
                /\ LoggedAs(LogExists) # {}
                /\ LoggedAs(LogNoMove) # {}
                /\ LoggedAs(LogSuccess) = {}
                /\ LoggedAs(LogFailure) = {}
     /\ \A n \in FileNames :
          Leaves(n) =>
            ~(IF OneLength(folder[n]) THEN successFolder ELSE failureFolder)[n].exists]_vars

\* a file of records of one length was left in the watched folder because
\* the success folder has an older file of its name
C19_Witness ==
  /\ folder[NameA] = FileSame
  /\ successFolder[NameA] = FileOld
  /\ \E k \in 1..Len(log) : log[k] = <<LogExists, <<"success", NameA>>>>
  /\ \E k \in 1..Len(log) : log[k] = <<LogNoMove, NameA>>

=============================================================================
